---- MODULE Spec2Model ----
\* A model of the comment store of consus (src/db.go): the per-file comment
\* threads, the path lock table, the request handlers that append, soft-delete,
\* list and count comments, and the startup migration.
EXTENDS Integers, Sequences, FiniteSets, TLC

\* ------------------------------------------------------------------ bounds
\* Request slots: the number of requests that can be in flight at once.
NumReqs == 2
\* The number of comment ids newCommentID hands out in one run.
MaxComments == 2
\* The clock runs from 0 to MaxTime minutes.
MaxTime == 5
\* The longest thread of a store the migration starts from.
MaxLegacy == 2

\* 5*time.Minute, in minutes.
GracePeriod == 5
\* len(counts) is a uint16.
Uint16 == 65536

Slots == 1..NumReqs
\* Thread files; both live in the one directory getCommentCountPerItem lists, and
\* PathSeq is the lexical order in which WalkDir visits them.
PathSeq == <<"a.mp3", "b.mp3">>
Paths == {PathSeq[i] : i \in 1..Len(PathSeq)}
\* Session cookies a request can carry: two live sessions, one unknown token, and
\* "" for a request without a session cookie.
Cookies == {"t1", "t2", "tx", ""}

VARIABLES
  file,       \* the comments directory: path -> what the file holds
  sessions,   \* sessions.m: token -> email
  tableMu,    \* commentLocks.mu: the slot holding it, 0 when free
  locks,      \* commentLocks.locks: path -> mutex (0: no entry)
  muHolder,   \* the mutexes created so far: mutex -> slot holding it, 0 when free
  req,        \* the request each slot serves: its handler's locals and position
  now,        \* the wall clock, in minutes
  nextID,     \* the next id crypto/rand yields (ids are modelled as never colliding)
  log,        \* history: path -> the ids commentSubmit wrote, in the order written
  gone,       \* history: the ids of the comments commentDelete answered 204 for
  mig,        \* the startup: migrateComments' position, result, and the writes it made
  allowed,    \* ALLOWED_EMAILS: the entries of the list, trimmed
  dir,        \* whether the comments directory exists
  sessionsMu  \* sessions.mu: the slot holding it, 0 when free

vars == <<file, sessions, tableMu, locks, muHolder, req, now, nextID, log, gone, mig, allowed, dir, sessionsMu>>

\* ------------------------------------------------------------ file contents
\* What a path holds: no file, a file that cannot be read, zero bytes, bytes that
\* are no JSON document, or a JSON document listing encoded comments.
Absent == [kind |-> "absent", doc |-> <<>>]
Unreadable == [kind |-> "unreadable", doc |-> <<>>]
Empty == [kind |-> "empty", doc |-> <<>>]
Garbage == [kind |-> "garbage", doc |-> <<>>]
Json(doc) == [kind |-> "json", doc |-> doc]

\* Commentv1. ID 0 stands for the empty string.
Comment(id, user, content, when, deleted) ==
  [ID |-> id, User |-> user, Content |-> content, When |-> when, Deleted |-> deleted]

NoComment == Comment(0, "", "", 0, FALSE)

\* json.Marshal of a Commentv1: ID and Deleted are omitempty.
MarshalComment(c) ==
  [k \in ({"User", "Content", "When"}
          \cup (IF c.ID # 0 THEN {"ID"} ELSE {})
          \cup (IF c.Deleted THEN {"Deleted"} ELSE {})) |-> c[k]]

\* json.Unmarshal into a Commentv1: a missing key leaves the zero value.
UnmarshalComment(e) ==
  Comment(IF "ID" \in DOMAIN e THEN e["ID"] ELSE 0,
          e["User"], e["Content"], e["When"],
          IF "Deleted" \in DOMAIN e THEN e["Deleted"] ELSE FALSE)

\* json.Marshal of a CommentFilev1.
Marshal(comments) == Json([i \in 1..Len(comments) |-> MarshalComment(comments[i])])

\* json.Unmarshal succeeds on a JSON document only (not on zero bytes).
Decodable(f) == f.kind = "json"

Unmarshal(f) == [i \in 1..Len(f.doc) |-> UnmarshalComment(f.doc[i])]

\* os.ReadFile: the error it returns ("" for none).
ReadErr(f) ==
  CASE f.kind = "absent" -> "notexist"
    [] f.kind = "unreadable" -> "permission"
    [] OTHER -> ""

\* len(commentBytes) after os.ReadFile.
HasBytes(f) == f.kind \in {"garbage", "json"}

\* ---------------------------------------------------------------- requests
NoReq ==
  [op |-> "none", pc |-> "idle", cookie |-> "", path |-> "", email |-> "", id |-> 0,
   comment |-> NoComment, m |-> 0, seen |-> Absent, buf |-> Absent,
   status |-> 0, msg |-> "", out |-> <<>>, todo |-> <<>>,
   counts |-> [p \in Paths |-> -1]]

\* migrateComments is not running. Its record: pc and idx, the position in the
\* walk; run, the startup the walk belongs to; err, what the walk returned; buf,
\* the bytes it is writing; and, as history, wrote, the files each run wrote, and
\* snap, the files as the second run found them.
NoMig ==
  [pc |-> "off", run |-> 0, idx |-> 0, err |-> "", buf |-> Absent,
   wrote |-> {}, snap |-> <<>>]

\* The server is up with an empty comments directory, no lock made yet, and two
\* users logged in.
Init ==
  /\ file = [p \in Paths |-> Absent]
  /\ sessions = [t \in {"t1", "t2"} |-> IF t = "t1" THEN "a@x.com" ELSE "b@x.com"]
  /\ tableMu = 0
  /\ locks = [p \in Paths |-> 0]
  /\ muHolder = <<>>
  /\ req = [r \in Slots |-> NoReq]
  /\ now = 0
  /\ nextID = 1
  /\ log = [p \in Paths |-> <<>>]
  /\ gone = {}
  /\ mig = NoMig
  /\ allowed = {"a@x.com", "b@x.com"}
  /\ dir = TRUE
  /\ sessionsMu = 0

\* A handler that takes the value of the cookie for the email.
emailFromCookie(cookie) == cookie

\* emailFromRequest: the email of the session the cookie names, "" for none.
emailFromRequest(cookie) ==
  IF cookie \in DOMAIN sessions THEN sessions[cookie] ELSE ""

\* A request is served by the first slot that serves none (which slot serves a
\* request makes no difference to it).
Free(r) == req[r].pc = "idle" /\ \A q \in 1..(r - 1) : req[q].pc # "idle"

\* The response of a finished request is taken off its slot.
Release(r) ==
  /\ req[r].pc = "done"
  /\ req' = [req EXCEPT ![r] = NoReq]
  /\ UNCHANGED <<file, sessions, tableMu, locks, muHolder, now, nextID, log, gone, mig, allowed, dir, sessionsMu>>

\* The handler returns: the slot keeps the response.
Finish(r, rec, status) ==
  req' = [req EXCEPT ![r] = [rec EXCEPT !.pc = "done", !.status = status]]


\* commentSubmit up to lockCommentFile: resolve the session, build the comment,
\* and os.MkdirAll the directory of the thread file.
SubmitStart(r, cookie, formOK, content, path) ==
  /\ Free(r)
  /\ LET email == emailFromRequest(cookie)
         early == [NoReq EXCEPT !.op = "submit", !.cookie = cookie]
         rec == [early EXCEPT !.path = path, !.email = email]
     IN IF email = "" THEN Finish(r, early, 401) /\ UNCHANGED <<nextID, dir>>
        ELSE IF ~formOK THEN Finish(r, early, 400) /\ UNCHANGED <<nextID, dir>>
        ELSE /\ nextID <= MaxComments
             /\ req' = [req EXCEPT ![r] =
                  [rec EXCEPT !.pc = "table",
                              !.comment = Comment(nextID, email, content, now, FALSE)]]
             /\ nextID' = nextID + 1
             /\ dir' = TRUE
  /\ UNCHANGED <<file, sessions, tableMu, locks, muHolder, now, log, gone, mig, allowed, sessionsMu>>

\* commentDelete up to lockCommentFile.
DeleteStart(r, cookie, id, path) ==
  /\ Free(r)
  /\ LET email == emailFromRequest(cookie)
         early == [NoReq EXCEPT !.op = "delete", !.cookie = cookie]
         rec == [early EXCEPT !.path = path, !.email = email, !.id = id]
     IN IF email = "" THEN Finish(r, early, 401)
        ELSE IF id = 0 THEN Finish(r, early, 400)
        ELSE req' = [req EXCEPT ![r] = [rec EXCEPT !.pc = "table"]]
  /\ UNCHANGED <<file, sessions, tableMu, locks, muHolder, now, nextID, log, gone, mig, allowed, dir, sessionsMu>>

\* lockCommentFile: commentLocks.mu.Lock().
LockTable(r) ==
  /\ req[r].pc = "table"
  /\ tableMu = 0
  /\ tableMu' = r
  /\ req' = [req EXCEPT ![r].pc = "lookup"]
  /\ UNCHANGED <<file, sessions, locks, muHolder, now, nextID, log, gone, mig, allowed, dir, sessionsMu>>

\* A lockCommentFile that makes a new mutex on every call.
MustCreateAlways(path) == TRUE

\* lockCommentFile: whether the table has no mutex for the path yet.
MustCreate(path) == locks[path] = 0

\* lockCommentFile: look the path's mutex up, create it when the table has none,
\* and commentLocks.mu.Unlock().
LockLookup(r) ==
  /\ req[r].pc = "lookup"
  /\ tableMu = r
  /\ LET path == req[r].path
     IN IF MustCreate(path)
        THEN /\ muHolder' = Append(muHolder, 0)
             /\ locks' = [locks EXCEPT ![path] = Len(muHolder) + 1]
             /\ req' = [req EXCEPT ![r].pc = "mutex", ![r].m = Len(muHolder) + 1]
        ELSE /\ req' = [req EXCEPT ![r].pc = "mutex", ![r].m = locks[path]]
             /\ UNCHANGED <<locks, muHolder>>
  /\ tableMu' = 0
  /\ UNCHANGED <<file, sessions, now, nextID, log, gone, mig, allowed, dir, sessionsMu>>

\* A Lock that does not wait.
CanLockAnyway(m) == TRUE

\* One mutex for the whole store: Lock waits while any path is locked.
CanLockGlobal(m) == \A k \in DOMAIN muHolder : muHolder[k] = 0

\* sync.Mutex.Lock returns once the mutex is free.
CanLock(m) == muHolder[m] = 0

\* lockCommentFile: m.Lock().
LockMutex(r) ==
  /\ req[r].pc = "mutex"
  /\ CanLock(req[r].m)
  /\ muHolder' = [muHolder EXCEPT ![req[r].m] = r]
  /\ req' = [req EXCEPT ![r].pc = "read"]
  /\ UNCHANGED <<file, sessions, tableMu, locks, now, nextID, log, gone, mig, allowed, dir, sessionsMu>>

\* A commentSubmit that adds the new comment at the end.
PrependAtEnd(comment, comments) == comments \o <<comment>>

\* append([]Commentv1{comment}, commentsFile.Comments...)
Prepend(comment, comments) == <<comment>> \o comments

\* commentSubmit under the lock: read and decode the thread, prepend, encode.
SubmitRead(r) ==
  /\ req[r].pc = "read"
  /\ req[r].op = "submit"
  /\ LET f == file[req[r].path]
         rec == [req[r] EXCEPT !.seen = f]
     IN IF ReadErr(f) \notin {"", "notexist"}
           \/ (HasBytes(f) /\ ~Decodable(f))
        THEN req' = [req EXCEPT ![r] = [rec EXCEPT !.pc = "unlock", !.status = 500]]
        ELSE LET old == IF HasBytes(f) THEN Unmarshal(f) ELSE <<>>
             IN req' = [req EXCEPT ![r] =
                  [rec EXCEPT !.pc = "open",
                              !.buf = Marshal(Prepend(req[r].comment, old))]]
  /\ UNCHANGED <<file, sessions, tableMu, locks, muHolder, now, nextID, log, gone, mig, allowed, dir, sessionsMu>>

\* A scan that stops at the last comment with the id.
LastMatch(comments, id) ==
  LET S == {i \in 1..Len(comments) : comments[i].ID = id}
  IN IF S = {} THEN 0 ELSE CHOOSE i \in S : \A j \in S : i >= j

\* The scan of commentDelete: the index of the first comment with the id, 0 for none.
FirstMatch(comments, id) ==
  LET S == {i \in 1..Len(comments) : comments[i].ID = id}
  IN IF S = {} THEN 0 ELSE CHOOSE i \in S : \A j \in S : i <= j

\* A window that is still open at exactly five minutes.
ExpiredLate(when, t) == t - when > GracePeriod

\* time.Since(When) >= 5*time.Minute
Expired(when, t) == t - when >= GracePeriod

\* A commentDelete without the author check.
NotAuthorSkipped(c, email) == FALSE

\* commentsFile.Comments[i].User != email
NotAuthor(c, email) == c.User # email

\* commentsFile.Comments[i].Deleted = true
MarkDeleted(comments, i) == [comments EXCEPT ![i].Deleted = TRUE]

\* commentDelete under the lock: read and decode the thread, find the comment,
\* check its author and its age, mark it deleted, encode.
DeleteRead(r) ==
  /\ req[r].pc = "read"
  /\ req[r].op = "delete"
  /\ LET f == file[req[r].path]
         rec == [req[r] EXCEPT !.seen = f]
         fail(status, msg) ==
           req' = [req EXCEPT ![r] =
             [rec EXCEPT !.pc = "unlock", !.status = status, !.msg = msg]]
     IN IF ReadErr(f) # "" THEN fail(404, "comment file not found")
        ELSE IF ~Decodable(f) THEN fail(500, "could not parse comment data")
        ELSE LET comments == Unmarshal(f)
                 i == FirstMatch(comments, req[r].id)
             IN IF i = 0 THEN fail(404, "comment not found")
                ELSE IF NotAuthor(comments[i], req[r].email) THEN fail(403, "forbidden")
                ELSE IF Expired(comments[i].When, now)
                  THEN fail(403, "delete window expired")
                ELSE req' = [req EXCEPT ![r] =
                       [rec EXCEPT !.pc = "open",
                                   !.buf = Marshal(MarkDeleted(comments, i))]]
  /\ UNCHANGED <<file, sessions, tableMu, locks, muHolder, now, nextID, log, gone, mig, allowed, dir, sessionsMu>>

\* os.WriteFile, first half: open with O_CREATE|O_TRUNC leaves zero bytes.
WriteOpen(r) ==
  /\ req[r].pc = "open"
  /\ file' = [file EXCEPT ![req[r].path] = Empty]
  /\ req' = [req EXCEPT ![r].pc = "write"]
  /\ UNCHANGED <<sessions, tableMu, locks, muHolder, now, nextID, log, gone, mig, allowed, dir, sessionsMu>>

\* A handler that keeps the comments of every item in the file of the first.
WriteDataShared(r) ==
  /\ req[r].pc = "write"
  /\ file' = [file EXCEPT ![PathSeq[1]] = req[r].buf]
  /\ req' = [req EXCEPT ![r].pc = "unlock",
                        ![r].status = IF req[r].op = "submit" THEN 303 ELSE 204]
  /\ IF req[r].op = "submit"
     THEN /\ log' = [log EXCEPT ![req[r].path] = Append(@, req[r].comment.ID)]
          /\ UNCHANGED gone
     ELSE /\ gone' = gone \cup {req[r].id}
          /\ UNCHANGED log
  /\ UNCHANGED <<sessions, tableMu, locks, muHolder, now, nextID, mig, allowed, dir, sessionsMu>>

\* os.WriteFile, second half: the bytes are written; then the handler answers.
WriteData(r) ==
  /\ req[r].pc = "write"
  /\ file' = [file EXCEPT ![req[r].path] = req[r].buf]
  /\ req' = [req EXCEPT ![r].pc = "unlock",
                        ![r].status = IF req[r].op = "submit" THEN 303 ELSE 204]
  /\ IF req[r].op = "submit"
     THEN /\ log' = [log EXCEPT ![req[r].path] = Append(@, req[r].comment.ID)]
          /\ UNCHANGED gone
     ELSE /\ gone' = gone \cup {req[r].id}
          /\ UNCHANGED log
  /\ UNCHANGED <<sessions, tableMu, locks, muHolder, now, nextID, mig, allowed, dir, sessionsMu>>

\* os.WriteFile fails to open the file: the file is left as it was, and the
\* handler answers 500.
OpenFail(r) ==
  /\ req[r].pc = "open"
  /\ req' = [req EXCEPT ![r].pc = "unlock", ![r].status = 500,
                        ![r].msg = "could not write comment file"]
  /\ UNCHANGED <<file, sessions, tableMu, locks, muHolder, now, nextID, log, gone, mig, allowed, dir, sessionsMu>>

\* os.WriteFile fails after it has truncated the file: the file is left with no
\* bytes or with the first part of the document, and the handler answers 500.
WriteFail(r) ==
  /\ req[r].pc = "write"
  /\ \E left \in {Empty, Garbage} : file' = [file EXCEPT ![req[r].path] = left]
  /\ req' = [req EXCEPT ![r].pc = "unlock", ![r].status = 500,
                        ![r].msg = "could not write comment file"]
  /\ UNCHANGED <<sessions, tableMu, locks, muHolder, now, nextID, log, gone, mig, allowed, dir, sessionsMu>>

\* A handler that unlocks at its end only, after the write.
UnlocksAfterWrite(status) == status \in {303, 204}

\* defer unlock(): the deferred call runs on every return, whatever the response.
Unlocks(status) == TRUE

\* defer unlock(): m.Unlock() on every return after lockCommentFile; the response
\* has been written, and the slot is free for the next request.
Unlock(r) ==
  /\ req[r].pc = "unlock"
  /\ muHolder' = IF Unlocks(req[r].status)
                 THEN [muHolder EXCEPT ![req[r].m] = 0]
                 ELSE muHolder
  /\ req' = [req EXCEPT ![r] = NoReq]
  /\ UNCHANGED <<file, sessions, tableMu, locks, now, nextID, log, gone, mig, allowed, dir, sessionsMu>>

\* The filter loop of renderItem.
VisibleComments(comments) == SelectSeq(comments, LAMBDA c : ~c.Deleted)

\* What renderItem answers for the bytes f of the thread file: the status, and
\* the comments it hands to the template.
Rendered(f) ==
  IF ReadErr(f) \notin {"", "notexist"} \/ (HasBytes(f) /\ ~Decodable(f))
  THEN [status |-> 500, out |-> <<>>]
  ELSE [status |-> 200,
        out |-> VisibleComments(IF HasBytes(f) THEN Unmarshal(f) ELSE <<>>)]

\* renderItem: read the thread without the lock and list its visible comments.
RenderItem(r, path) ==
  /\ Free(r)
  /\ LET res == Rendered(file[path])
         rec == [NoReq EXCEPT !.op = "view", !.path = path, !.out = res.out]
     IN Finish(r, rec, res.status)
  /\ UNCHANGED <<file, sessions, tableMu, locks, muHolder, now, nextID, log, gone, mig, allowed, dir, sessionsMu>>

\* A count that does not look at Deleted.
CountAll(comments) == Len(comments) % Uint16

\* The counting loop of getCommentCountPerItem, on a uint16.
CountVisible(comments) ==
  Cardinality({i \in 1..Len(comments) : ~comments[i].Deleted}) % Uint16

\* getCommentCountPerItem: dir.Readdir lists the files of the directory; a
\* directory that is not there is made, and the counts are empty.
CountStart(r) ==
  /\ Free(r)
  /\ LET names == SelectSeq(PathSeq, LAMBDA p : file[p] # Absent)
         rec == [NoReq EXCEPT !.op = "count", !.todo = names]
     IN IF names = <<>> THEN Finish(r, rec, 200)
        ELSE req' = [req EXCEPT ![r] = [rec EXCEPT !.pc = "count"]]
  /\ dir' = TRUE
  /\ UNCHANGED <<file, sessions, tableMu, locks, muHolder, now, nextID, log, gone, mig, allowed, sessionsMu>>

\* A loop that ends at the first file it cannot read or decode.
GiveUp(todo) == <<>>

\* continue: the loop goes on with the files after the one it could not read or
\* decode.
Skip(todo) == Tail(todo)

\* getCommentCountPerItem: one turn of the loop reads and counts one file; a file
\* that cannot be read or decoded is skipped.
CountFile(r) ==
  /\ req[r].pc = "count"
  /\ LET p == Head(req[r].todo)
         f == file[p]
         bad == ReadErr(f) # "" \/ ~Decodable(f)
         counts == IF bad THEN req[r].counts
                   ELSE [req[r].counts EXCEPT ![p] = CountVisible(Unmarshal(f))]
         rec == [req[r] EXCEPT !.counts = counts,
                               !.todo = IF bad THEN Skip(@) ELSE Tail(@)]
     IN IF rec.todo = <<>> THEN Finish(r, rec, 200)
        ELSE req' = [req EXCEPT ![r] = rec]
  /\ UNCHANGED <<file, sessions, tableMu, locks, muHolder, now, nextID, log, gone, mig, allowed, dir, sessionsMu>>

\* A minute passes.
Tick ==
  /\ now < MaxTime
  /\ now' = now + 1
  /\ UNCHANGED <<file, sessions, tableMu, locks, muHolder, req, nextID, log, gone, mig, allowed, dir, sessionsMu>>

\* The steps of the commentSubmit and commentDelete requests that are under way.
Step(r) ==
  \/ LockTable(r)
  \/ LockLookup(r)
  \/ LockMutex(r)
  \/ SubmitRead(r)
  \/ DeleteRead(r)
  \/ WriteOpen(r)
  \/ WriteData(r)
  \/ Unlock(r)
  \/ Release(r)

\* The server under concurrent appends and deletes on one thread file, from one
\* user and from callers without a session, while the clock stands still.
Next ==
  \/ \E r \in Slots, c \in Cookies \ {"t2"}, ok \in BOOLEAN :
       SubmitStart(r, c, ok, "hello", PathSeq[1])
  \/ \E r \in Slots, c \in Cookies \ {"t2"}, id \in 0..MaxComments :
       DeleteStart(r, c, id, PathSeq[1])
  \/ \E r \in Slots : Step(r)

Spec == Init /\ [][Next]_vars

\* The server under appends and deletes of two users that come one after the
\* other, and reads at any time, while the clock stands still.
NextSeq ==
  \/ \E c \in Cookies : SubmitStart(1, c, TRUE, "hello", PathSeq[1])
  \/ \E c \in Cookies, id \in 0..MaxComments : DeleteStart(1, c, id, PathSeq[1])
  \/ Step(1)
  \/ \E r \in Slots : RenderItem(r, PathSeq[1])
  \/ \E r \in Slots : CountStart(r)
  \/ \E r \in Slots : CountFile(r)
  \/ \E r \in Slots : Release(r)

SpecSeq == Init /\ [][NextSeq]_vars

\* The server under one request at a time on one thread file, while the clock runs.
NextTime ==
  \/ \E c \in Cookies : SubmitStart(1, c, TRUE, "hello", PathSeq[1])
  \/ \E c \in Cookies, id \in 0..MaxComments : DeleteStart(1, c, id, PathSeq[1])
  \/ Step(1)
  \/ Tick

SpecTime == Init /\ [][NextTime]_vars

\* The server under concurrent appends and deletes of one user on two thread
\* files, while the clock stands still.
NextPaths ==
  \/ \E r \in Slots, p \in Paths : SubmitStart(r, "t1", TRUE, "hello", p)
  \/ \E r \in Slots, p \in Paths : DeleteStart(r, "t1", 1, p)
  \/ \E r \in Slots : LockTable(r)
  \/ \E r \in Slots : LockLookup(r)
  \/ \E r \in Slots : LockMutex(r)
  \/ \E r \in Slots : SubmitRead(r)
  \/ \E r \in Slots : DeleteRead(r)
  \/ \E r \in Slots : WriteOpen(r)
  \/ \E r \in Slots : WriteData(r)
  \/ \E r \in Slots : Unlock(r)

SpecPaths == Init /\ [][NextPaths]_vars

\* The server under concurrent appends of one user on one thread file, while the
\* clock runs.
NextRace ==
  \/ \E r \in Slots : SubmitStart(r, "t1", TRUE, "hello", PathSeq[1])
  \/ \E r \in Slots : LockTable(r)
  \/ \E r \in Slots : LockLookup(r)
  \/ \E r \in Slots : LockMutex(r)
  \/ \E r \in Slots : SubmitRead(r)
  \/ \E r \in Slots : WriteOpen(r)
  \/ \E r \in Slots : WriteData(r)
  \/ \E r \in Slots : Unlock(r)
  \/ Tick

SpecRace == Init /\ [][NextRace]_vars

\* ---------------------------------------------------------------- sessions
\* An allow-list that lets everybody in when it is empty.
isAllowedOrOpen(email) == allowed = {} \/ email \in allowed

\* isAllowedEmail: false when ALLOWED_EMAILS is empty, else whether one of its
\* entries, trimmed, is the email.
isAllowedEmail(email) == allowed # {} /\ email \in allowed

\* newSessionToken, from the next value of crypto/rand.
Token(n) == "t" \o ToString(n)

\* A logout that only clears the cookie.
RevokeNothing(m, token) == m

\* delete(sessions.m, c.Value)
Revoke(m, token) == [t \in DOMAIN m \ {token} |-> m[t]]

\* sessions.m[sessionToken] = userInfo.Email
Grant(m, token, email) ==
  [t \in DOMAIN m \cup {token} |-> IF t = token THEN email ELSE m[t]]

\* What can come of the OAuth exchange: a wrong state parameter, a failed code
\* exchange, a failed or unparsable userinfo response, or the user's info.
OAuthResults == {"state", "exchange", "userinfo", "parse", "ok"}

\* handleCallback: the identity Google reports gets a session if it is on the
\* allow-list.
Callback(r, result, email) ==
  /\ Free(r)
  /\ LET rec == [NoReq EXCEPT !.op = "callback", !.email = email]
         fail(status, msg) ==
           /\ Finish(r, [rec EXCEPT !.msg = msg], status)
           /\ UNCHANGED <<sessions, nextID>>
     IN CASE result = "state" -> fail(400, "invalid state")
          [] result = "exchange" -> fail(500, "oauth exchange failed")
          [] result = "userinfo" -> fail(500, "could not fetch user info")
          [] result = "parse" -> fail(500, "could not parse user info")
          [] OTHER ->
               IF ~isAllowedEmail(email)
               THEN fail(403, "access denied: email not in allowlist")
               ELSE /\ nextID <= MaxComments
                    /\ sessions' = Grant(sessions, Token(nextID), email)
                    /\ nextID' = nextID + 1
                    /\ Finish(r, [rec EXCEPT !.cookie = Token(nextID)], 307)
  /\ UNCHANGED <<file, tableMu, locks, muHolder, now, log, gone, mig, allowed, dir, sessionsMu>>

\* handleLogout: the session the cookie names is removed.
Logout(r, cookie) ==
  /\ Free(r)
  /\ sessions' = IF cookie # "" THEN Revoke(sessions, cookie) ELSE sessions
  /\ Finish(r, [NoReq EXCEPT !.op = "logout", !.cookie = cookie], 307)
  /\ UNCHANGED <<file, tableMu, locks, muHolder, now, nextID, log, gone, mig, allowed, dir, sessionsMu>>

\* ALLOWED_EMAILS: not set, one address, or one address and an empty entry.
AllowLists == {{}, {"a@x.com"}, {"a@x.com", ""}}

\* The identities Google can report.
Identities == {"a@x.com", "c@x.com", ""}

\* The session cookies a request can carry: a token newSessionToken has made or
\* will make, a token it never makes, or none.
SessionCookies == {Token(n) : n \in 1..MaxComments} \cup {"tx", ""}

\* The server has come up: nobody is logged in, and there is no comments
\* directory yet.
InitSession ==
  /\ file = [p \in Paths |-> Absent]
  /\ sessions = <<>>
  /\ tableMu = 0
  /\ locks = [p \in Paths |-> 0]
  /\ muHolder = <<>>
  /\ req = [r \in Slots |-> NoReq]
  /\ now = 0
  /\ nextID = 1
  /\ log = [p \in Paths |-> <<>>]
  /\ gone = {}
  /\ mig = NoMig
  /\ allowed \in AllowLists
  /\ dir = FALSE
  /\ sessionsMu = 0

\* The server under logins, logouts, appends and deletes that come one after the
\* other.
NextSession ==
  \/ \E res \in OAuthResults, e \in Identities : Callback(1, res, e)
  \/ \E c \in SessionCookies : Logout(1, c)
  \/ \E c \in SessionCookies : SubmitStart(1, c, TRUE, "hello", PathSeq[1])
  \/ \E c \in SessionCookies, id \in 1..MaxComments : DeleteStart(1, c, id, PathSeq[1])
  \/ Step(1)

SpecSession == InitSession /\ [][NextSession]_vars

\* ------------------------------------------------------------------ faults
\* A comment an earlier run of the server stored.
Stored == Comment(101, "a@x.com", "hello", 0, FALSE)

\* What the thread file holds when the server comes up.
FoundFiles == {Absent, Unreadable, Garbage, Marshal(<<Stored>>)}

\* The server is up on a comments directory whose thread file is missing, cannot
\* be read, is damaged, or holds a comment made just now or five minutes ago;
\* one more comment can be made.
InitFaults ==
  /\ \E f \in FoundFiles : file = [p \in Paths |-> IF p = PathSeq[1] THEN f ELSE Absent]
  /\ sessions = [t \in {"t1", "t2"} |-> IF t = "t1" THEN "a@x.com" ELSE "b@x.com"]
  /\ tableMu = 0
  /\ locks = [p \in Paths |-> 0]
  /\ muHolder = <<>>
  /\ req = [r \in Slots |-> NoReq]
  /\ now \in {0, GracePeriod}
  /\ now # 0 => Decodable(file[PathSeq[1]])
  /\ nextID = MaxComments
  /\ log = [p \in Paths |-> <<>>]
  /\ gone = {}
  /\ mig = NoMig
  /\ allowed = {"a@x.com", "b@x.com"}
  /\ dir = TRUE
  /\ sessionsMu = 0

\* The steps of a request under way when the file system can fail.
Run(r) ==
  \/ LockTable(r)
  \/ LockLookup(r)
  \/ LockMutex(r)
  \/ SubmitRead(r)
  \/ DeleteRead(r)
  \/ OpenFail(r)
  \/ WriteOpen(r)
  \/ WriteFail(r)
  \/ WriteData(r)
  \/ Unlock(r)

\* The server under concurrent appends and deletes on one thread file while
\* writes can fail.
NextFaults ==
  \/ \E r \in Slots : SubmitStart(r, "t1", TRUE, "hello", PathSeq[1])
  \/ \E r \in Slots, c \in {"t1", "t2"} : DeleteStart(r, c, Stored.ID, PathSeq[1])
  \/ \E r \in Slots : Run(r)

\* Every goroutine that can take a step takes one in the end.
SpecFaults == InitFaults /\ [][NextFaults]_vars /\ \A r \in Slots : WF_vars(Run(r))

\* ------------------------------------------------------------------- frame
\* A comment of another author that an earlier run stored under the id of Stored.
Twin == Comment(Stored.ID, "b@x.com", "nice", 0, FALSE)

\* The thread file the server finds: none, zero bytes, one comment, or two
\* comments under one id.
FrameFiles == {Absent, Empty, Marshal(<<Stored>>), Marshal(<<Twin, Stored>>)}

\* The server is up on such a thread file, whose comments were made just now or
\* five minutes ago.
InitFrame ==
  /\ \E f \in FrameFiles : file = [p \in Paths |-> IF p = PathSeq[1] THEN f ELSE Absent]
  /\ sessions = [t \in {"t1", "t2"} |-> IF t = "t1" THEN "a@x.com" ELSE "b@x.com"]
  /\ tableMu = 0
  /\ locks = [p \in Paths |-> 0]
  /\ muHolder = <<>>
  /\ req = [r \in Slots |-> NoReq]
  /\ now \in {0, GracePeriod}
  /\ nextID = 1
  /\ log = [p \in Paths |-> <<>>]
  /\ gone = {}
  /\ mig = NoMig
  /\ allowed = {"a@x.com", "b@x.com"}
  /\ dir = TRUE
  /\ sessionsMu = 0

\* The server under appends and deletes of two users that come one after the
\* other, while the clock stands still.
NextFrame ==
  \/ \E c \in Cookies : SubmitStart(1, c, TRUE, "hello", PathSeq[1])
  \/ \E c \in Cookies, id \in {Stored.ID} \cup (1..MaxComments) :
       DeleteStart(1, c, id, PathSeq[1])
  \/ Step(1)

SpecFrame == InitFrame /\ [][NextFrame]_vars

\* -------------------------------------------------------------- migration
\* A migration that gives every comment a new id.
NeedsIDAlways(c) == TRUE

\* cf.Comments[i].ID == ""
NeedsID(c) == c.ID = 0

\* A loop that draws one id and gives it to every comment without id.
AssignOneID(cf, first) ==
  [i \in 1..Len(cf) |-> IF NeedsID(cf[i]) THEN [cf[i] EXCEPT !.ID = first] ELSE cf[i]]

\* The loop of migrateComments: every comment without id gets the next new id.
AssignIDs(cf, first) ==
  [i \in 1..Len(cf) |->
     IF NeedsID(cf[i])
     THEN [cf[i] EXCEPT !.ID =
             first + Cardinality({j \in 1..(i - 1) : NeedsID(cf[j])})]
     ELSE cf[i]]

\* The threads a comments directory can hold from earlier runs of the server:
\* up to MaxLegacy comments, each with or without id, deleted or not.
LegacyComment(i) ==
  {Comment(id, "a@x.com", "hello", 0, d) : id \in {0, 100 + i}, d \in BOOLEAN}

LegacyThreads ==
  UNION {{t \in [1..n -> UNION {LegacyComment(i) : i \in 1..n}] :
            \A i \in 1..n : t[i] \in LegacyComment(i)} : n \in 0..MaxLegacy}

LegacyFiles ==
  {Absent, Unreadable, Empty, Garbage} \cup {Marshal(t) : t \in LegacyThreads}

\* NewMainServer calls migrateComments on the comments directory it finds.
InitMigrate ==
  /\ file \in [Paths -> LegacyFiles]
  /\ sessions = <<>>
  /\ tableMu = 0
  /\ locks = [p \in Paths |-> 0]
  /\ muHolder = <<>>
  /\ req = [r \in Slots |-> NoReq]
  /\ now = 0
  /\ nextID = 1
  /\ log = [p \in Paths |-> <<>>]
  /\ gone = {}
  /\ mig = [NoMig EXCEPT !.pc = "walk", !.run = 1, !.idx = 1]
  /\ allowed = {}
  /\ dir = TRUE
  /\ sessionsMu = 0

\* The walk goes on to the next entry.
Onward == [mig EXCEPT !.pc = "walk", !.idx = @ + 1]

\* The callback of filepath.WalkDir on the next file: read, decode, assign ids.
\* WalkDir stops at the first error the callback returns.
MigrateVisit ==
  /\ mig.pc = "walk"
  /\ mig.idx <= Len(PathSeq)
  /\ LET f == file[PathSeq[mig.idx]]
     IN IF f = Absent THEN mig' = Onward /\ UNCHANGED nextID
        ELSE IF ReadErr(f) # ""
          THEN mig' = [mig EXCEPT !.pc = "returned", !.err = "read"] /\ UNCHANGED nextID
        ELSE IF ~Decodable(f) THEN mig' = Onward /\ UNCHANGED nextID
        ELSE LET cf == Unmarshal(f)
                 modified == \E i \in 1..Len(cf) : NeedsID(cf[i])
             IN IF ~modified THEN mig' = Onward /\ UNCHANGED nextID
                ELSE /\ mig' = [mig EXCEPT !.pc = "open",
                                           !.buf = Marshal(AssignIDs(cf, nextID))]
                     /\ nextID' = nextID + Cardinality({i \in 1..Len(cf) : NeedsID(cf[i])})
  /\ UNCHANGED <<file, sessions, tableMu, locks, muHolder, req, now, log, gone, allowed, dir, sessionsMu>>

\* os.WriteFile of migrateComments, first half: the file is truncated.
MigrateOpen ==
  /\ mig.pc = "open"
  /\ file' = [file EXCEPT ![PathSeq[mig.idx]] = Empty]
  /\ mig' = [mig EXCEPT !.pc = "write"]
  /\ UNCHANGED <<sessions, tableMu, locks, muHolder, req, now, nextID, log, gone, allowed, dir, sessionsMu>>

\* os.WriteFile of migrateComments, second half: the bytes are written.
MigrateWrite ==
  /\ mig.pc = "write"
  /\ file' = [file EXCEPT ![PathSeq[mig.idx]] = mig.buf]
  /\ mig' = [Onward EXCEPT !.wrote = @ \cup {<<mig.run, PathSeq[mig.idx]>>}]
  /\ UNCHANGED <<sessions, tableMu, locks, muHolder, req, now, nextID, log, gone, allowed, dir, sessionsMu>>

\* The walk has visited every entry: migrateComments returns nil.
MigrateReturn ==
  /\ mig.pc = "walk"
  /\ mig.idx > Len(PathSeq)
  /\ mig' = [mig EXCEPT !.pc = "returned", !.err = ""]
  /\ UNCHANGED <<file, sessions, tableMu, locks, muHolder, req, now, nextID, log, gone, allowed, dir, sessionsMu>>

\* The server is started again right away: migrateComments runs a second time.
MigrateAgain ==
  /\ mig.pc = "returned"
  /\ mig.run = 1
  /\ mig' = [mig EXCEPT !.pc = "walk", !.run = 2, !.idx = 1, !.snap = <<mig.err, file>>]
  /\ UNCHANGED <<file, sessions, tableMu, locks, muHolder, req, now, nextID, log, gone, allowed, dir, sessionsMu>>

NextMigrate ==
  \/ MigrateVisit
  \/ MigrateOpen
  \/ MigrateWrite
  \/ MigrateReturn
  \/ MigrateAgain

SpecMigrate == InitMigrate /\ [][NextMigrate]_vars

\* A NewMainServer that gives up when the migration has failed.
FatalOnError(err) == IF err = "" THEN "listen" ELSE "fatal"

\* NewMainServer after migrateComments: an error is logged, and nothing more.
AfterMigration(err) == "listen"

\* NewMainServer from the return of migrateComments to net.Listen: the error is
\* logged, the templates are parsed and the handlers registered.
Register ==
  /\ mig.pc = "returned"
  /\ mig' = [mig EXCEPT !.pc = AfterMigration(mig.err)]
  /\ UNCHANGED <<file, sessions, tableMu, locks, muHolder, req, now, nextID, log, gone, allowed, dir, sessionsMu>>

\* net.Listen: the server serves, or, when the port cannot be had, log.Fatal.
Listen(ok) ==
  /\ mig.pc = "listen"
  /\ mig' = [mig EXCEPT !.pc = IF ok THEN "serving" ELSE "fatal"]
  /\ UNCHANGED <<file, sessions, tableMu, locks, muHolder, req, now, nextID, log, gone, allowed, dir, sessionsMu>>

\* One startup of the server on the comments directory it finds.
NextStart ==
  \/ MigrateVisit
  \/ MigrateOpen
  \/ MigrateWrite
  \/ MigrateReturn
  \/ Register
  \/ \E ok \in BOOLEAN : Listen(ok)

\* NewMainServer runs on until it serves or exits.
SpecStart == InitMigrate /\ [][NextStart]_vars /\ WF_vars(NextStart)

\* The server is up on the comments directory it found.
InitCount ==
  /\ file \in [Paths -> LegacyFiles]
  /\ sessions = <<>>
  /\ tableMu = 0
  /\ locks = [p \in Paths |-> 0]
  /\ muHolder = <<>>
  /\ req = [r \in Slots |-> NoReq]
  /\ now = 0
  /\ nextID = 1
  /\ log = [p \in Paths |-> <<>>]
  /\ gone = {}
  /\ mig = NoMig
  /\ allowed = {}
  /\ dir = TRUE
  /\ sessionsMu = 0

\* The counts of a directory of old thread files are asked for again and again.
NextCount ==
  \/ CountStart(1)
  \/ CountFile(1)
  \/ Release(1)

SpecCount == InitCount /\ [][NextCount]_vars

\* ------------------------------------------------------------------ claims
\* The thread a file holds ("no thread yet" and zero bytes are the empty thread).
Thread(p) == IF Decodable(file[p]) THEN Unmarshal(file[p]) ELSE <<>>

Ids(comments) == [i \in 1..Len(comments) |-> comments[i].ID]

Range(seq) == {seq[i] : i \in 1..Len(seq)}

Reverse(seq) == [i \in 1..Len(seq) |-> seq[Len(seq) + 1 - i]]

\* A request is inside os.WriteFile on p: the file is truncated, the bytes not yet written.
Writing(p) == \E r \in Slots : req[r].pc = "write" /\ req[r].path = p

\* A request holds the lock of its path.
Holds(r) == req[r].pc \in {"read", "open", "write", "unlock"}

\* C1: whenever no append is in the middle of its write, the thread of a path holds
\* exactly one comment for every commentSubmit that wrote it, each under its own
\* id: no append is lost and no id is there twice.
C1_NoLostAppend ==
  \A p \in Paths :
    ~Writing(p) =>
      /\ Len(Thread(p)) = Len(log[p])
      /\ Range(Ids(Thread(p))) = Range(log[p])
      /\ Cardinality(Range(Ids(Thread(p)))) = Len(log[p])

\* Two appends that overlapped have both finished: the one that started first (id 1)
\* wrote last, and both comments are in the thread.
C1_Witness ==
  /\ \A r \in Slots : req[r].pc = "idle"
  /\ log[PathSeq[1]] = <<2, 1>>
  /\ Ids(Thread(PathSeq[1])) = <<1, 2>>

\* C2: at most one request at a time holds the lock of a path; between the read
\* and the write of the request that holds it the file is what that request
\* read, and after its write, until it unlocks, the file is what it wrote.
C2_Serialized ==
  /\ \A r1, r2 \in Slots :
       (r1 # r2 /\ Holds(r1) /\ Holds(r2)) => req[r1].path # req[r2].path
  /\ \A r \in Slots :
       /\ req[r].pc = "open" => file[req[r].path] = req[r].seen
       /\ (req[r].pc = "unlock" /\ req[r].status \in {303, 204})
            => file[req[r].path] = req[r].buf

\* An append waits for the lock of the path while a delete, between its read and
\* its write, holds it.
C2_Witness ==
  \E r1, r2 \in Slots :
    /\ req[r1].op = "delete" /\ req[r1].pc = "write"
    /\ req[r2].op = "submit" /\ req[r2].pc = "mutex"
    /\ req[r1].path = req[r2].path

\* The comments of the thread a request read that carry the id it asks to delete.
Targets(r) ==
  IF Decodable(req[r].seen)
  THEN {c \in Range(Unmarshal(req[r].seen)) : c.ID = req[r].id}
  ELSE {}

\* A commentDelete has answered and still holds the lock.
Answered(r) == req[r].op = "delete" /\ req[r].pc = "unlock"

\* C3: a delete by its author of a comment that is already deleted, inside the
\* grace window, answers 404 (and never success).
C3_RepeatDeleteNotFound ==
  \A r \in Slots :
    \A c \in Targets(r) :
      (Answered(r) /\ c.Deleted /\ c.User = req[r].email /\ now - c.When < 5)
        => req[r].status = 404

\* C4: a delete of a comment of another author answers 403, whatever the age of
\* the comment and whether or not it is deleted already, and leaves the file as
\* the request read it.
C4_OtherAuthorForbidden ==
  \A r \in Slots :
    \A c \in Targets(r) :
      (Answered(r) /\ c.User # req[r].email)
        => /\ req[r].status = 403
           /\ file[req[r].path] = req[r].seen

\* Somebody else asks to delete a comment that its author has deleted already and
\* whose grace window is over.
C4_Witness ==
  \E r \in Slots :
    \E c \in Targets(r) :
      /\ Answered(r) /\ req[r].status = 403
      /\ c.User = "a@x.com" /\ req[r].email = "b@x.com"
      /\ c.Deleted /\ now - c.When >= 5

\* C5: when commentDelete checks a comment of the requester, it goes on to mark
\* it deleted exactly if less than 5 minutes have passed since the comment was
\* made, and then answers 204 with the comment marked in the file; from 5 minutes
\* on it answers 403 "delete window expired" and leaves the file alone.
C5_GraceWindow ==
  [][\A r \in Slots :
       /\ (req[r].op = "delete" /\ req[r].pc = "read" /\ req'[r].pc # "read")
            => \A c \in Range(Thread(req[r].path)) :
                 (c.ID = req[r].id /\ c.User = req[r].email) =>
                   IF now - c.When < 5
                   THEN /\ req'[r].pc = "open"
                        /\ [c EXCEPT !.Deleted = TRUE] \in Range(Unmarshal(req'[r].buf))
                   ELSE /\ req'[r].pc = "unlock"
                        /\ req'[r].status = 403
                        /\ req'[r].msg = "delete window expired"
                        /\ file' = file
       /\ (req[r].op = "delete" /\ req[r].pc = "write" /\ req'[r].pc # "write")
            => /\ req'[r].status = 204
               /\ file'[req[r].path] = req[r].buf
  ]_vars

\* The author's delete comes exactly five minutes after the comment was made and
\* is refused, and the comment is still visible.
C5_Witness ==
  \E r \in Slots :
    \E c \in Targets(r) :
      /\ Answered(r) /\ req[r].status = 403 /\ req[r].msg = "delete window expired"
      /\ c.User = req[r].email /\ ~c.Deleted /\ now - c.When = 5
      /\ c \in Range(Thread(req[r].path))

\* Slot r serves a renderItem request in this step.
Renders(r) == req[r].pc = "idle" /\ req'[r].op = "view"

\* Slot r, serving a getCommentCountPerItem request, reads file p in this step.
Counts(r, p) == req[r].pc = "count" /\ req'[r] # req[r] /\ Head(req[r].todo) = p

Expected(p) == Reverse(SelectSeq(log[p], LAMBDA id : id \notin gone))

\* C7: while no request is in the middle of writing the file, renderItem lists
\* exactly the comments that were appended and not deleted, last appended first,
\* and getCommentCountPerItem counts as many.
C7_NewestFirst ==
  [][\A r \in Slots, p \in Paths :
       /\ (Renders(r) /\ req'[r].path = p /\ ~Writing(p))
            => /\ req'[r].status = 200
               /\ Ids(req'[r].out) = Expected(p)
       /\ (Counts(r, p) /\ ~Writing(p))
            => req'[r].counts[p] = Len(Expected(p))
  ]_vars

\* a@x.com appends comment 1, b@x.com appends comment 2, a@x.com deletes comment 1:
\* the list is [2], and the count is 1.
C7_Witness ==
  \E v, r \in Slots :
    /\ log[PathSeq[1]] = <<1, 2>> /\ gone = {1}
    /\ req[v].op = "view" /\ req[v].pc = "done" /\ Ids(req[v].out) = <<2>>
    /\ req[v].out[1].User = "b@x.com"
    /\ req[r].op = "count" /\ req[r].pc = "done" /\ req[r].counts[PathSeq[1]] = 1
    /\ \E c \in Range(Thread(PathSeq[1])) : c.ID = 1 /\ c.User = "a@x.com" /\ c.Deleted

\* C8: a second run of migrateComments right after a first run that returned nil
\* writes no file and leaves every file, and so every id, as it found it.
C8_MigrationIdempotent ==
  (mig.run = 2 /\ mig.snap[1] = "")
    => /\ \A p \in Paths : <<2, p>> \notin mig.wrote
       /\ file = mig.snap[2]

\* The second run has returned after a first run that gave ids to the comments of
\* both files.
C8_Witness ==
  /\ mig.run = 2 /\ mig.pc = "returned" /\ mig.snap[1] = ""
  /\ mig.wrote = {<<1, p>> : p \in Paths}

\* C9: when migrateComments has returned, every thread file that can be read and
\* decoded has been migrated (none of its comments is without id), whichever
\* files before or after it cannot be read or decoded.
C9_BadFileSkipped ==
  (mig.run = 1 /\ mig.pc = "returned")
    => \A p \in Paths : \A c \in Range(Thread(p)) : c.ID # 0

\* C10: what renderItem answers while a request writes the thread is its answer
\* for the thread as that request read it or for the thread as it writes it.
C10_ReaderSeesWholeThread ==
  [][\A r, w \in Slots :
       (Renders(r) /\ req[w].pc \in {"open", "write"} /\ req[w].path = req'[r].path)
         => [status |-> req'[r].status, out |-> req'[r].out]
              \in {Rendered(req[w].seen), Rendered(req[w].buf)}
  ]_vars

\* C11: every mutex that is locked is the mutex of a request under way that took
\* it, and a request that holds the lock of its path releases it in the end,
\* however the request ends.
C11_LockReleased ==
  /\ [](\A m \in DOMAIN muHolder :
          muHolder[m] # 0 => (Holds(muHolder[m]) /\ req[muHolder[m]].m = m))
  /\ \A r \in Slots : (Holds(r) ~> ~Holds(r))

\* Every request on a thread file that cannot be read has ended, and the mutex
\* they took is free.
C11_Witness ==
  /\ file[PathSeq[1]] = Unreadable
  /\ locks[PathSeq[1]] # 0 /\ muHolder[locks[PathSeq[1]]] = 0
  /\ \A r \in Slots : req[r].pc = "idle"

\* C12: the lock of the table is held only for the lookup, never by a request
\* that waits for or holds the lock of a path; and a request that cannot take the
\* lock of its path yet waits for a request that holds the lock of that same path.
C12_PathsIndependent ==
  /\ tableMu # 0 => req[tableMu].pc = "lookup"
  /\ \A r \in Slots :
       (req[r].pc = "mutex" /\ ~CanLock(req[r].m))
         => \E q \in Slots : Holds(q) /\ req[q].path = req[r].path /\ muHolder[req[r].m] = q
  /\ \A p, q \in Paths : (locks[p] # 0 /\ locks[p] = locks[q]) => p = q

\* While one request is inside its write on a.mp3, another has taken the lock of
\* b.mp3 and is inside its write too.
C12_Witness ==
  \E r1, r2 \in Slots :
    /\ req[r1].pc = "write" /\ req[r1].path = PathSeq[1]
    /\ req[r2].pc = "write" /\ req[r2].path = PathSeq[2]

\* The cookie names a session of an identity.
Resolves(c) == c \in DOMAIN sessions /\ sessions[c] # ""

\* Slot r takes a commentSubmit or commentDelete request in this step.
Starts(r) == req[r].pc = "idle" /\ req'[r].op \in {"submit", "delete"}

\* C13: an append or delete request whose cookie names no session of an identity
\* is answered 401 in its first step, with no lock taken or made and no file or
\* directory touched; every request that goes on to the locks has an identity.
C13_UnauthorizedFirst ==
  [][\A r \in Slots :
       /\ (Starts(r) /\ ~Resolves(req'[r].cookie))
            => /\ req'[r].pc = "done" /\ req'[r].status = 401
               /\ UNCHANGED <<file, dir, tableMu, locks, muHolder>>
       /\ (req'[r].op \in {"submit", "delete"} /\ req'[r].pc # "done")
            => req'[r].email # ""
  ]_vars

\* An append that carries the token of a session that was logged out is answered
\* 401, and there is still no comments directory.
C13_Witness ==
  \E r \in Slots :
    /\ req[r].op = "submit" /\ req[r].pc = "done" /\ req[r].status = 401
    /\ req[r].cookie = Token(1) /\ nextID = 2 /\ sessions = <<>>
    /\ ~dir

\* Slot r takes a handleCallback request in this step.
LogsIn(r) == req[r].pc = "idle" /\ req'[r].op = "callback"

\* C14: every session is the session of an identity on the allow-list, and so is
\* every request past the session check and every author of a comment; a login
\* of an identity that is not on the list, or with an empty list, is answered 403
\* and leaves the sessions as they were.
C14_SessionsAllowed ==
  [][/\ \A t \in DOMAIN sessions' : sessions'[t] \in allowed /\ allowed # {}
     /\ \A r \in Slots :
          (req'[r].op \in {"submit", "delete"} /\ req'[r].pc # "done")
            => req'[r].email \in allowed
     /\ \A p \in Paths :
          Decodable(file'[p]) => \A c \in Range(Unmarshal(file'[p])) : c.User \in allowed
     /\ \A r \in Slots :
          (LogsIn(r) /\ (allowed = {} \/ req'[r].email \notin allowed))
            => /\ sessions' = sessions
               /\ req'[r].status \in {400, 500, 403}
  ]_vars

\* a@x.com has logged in and made a comment; the login of c@x.com, who is not on
\* the list, is answered 403.
C14_Witness ==
  \E r \in Slots :
    /\ req[r].op = "callback" /\ req[r].status = 403 /\ req[r].email = "c@x.com"
    /\ DOMAIN sessions = {Token(1)} /\ sessions[Token(1)] = "a@x.com"
    /\ \E c \in Range(Thread(PathSeq[1])) : c.User = "a@x.com"

\* Slot r takes a handleLogout request in this step.
LogsOut(r) == req[r].pc = "idle" /\ req'[r].op = "logout"

\* C15: after a logout the token of its cookie names no session; a token that was
\* made and names no session never names one again, and a token that was never
\* made never names one; a request whose token names no session is answered 401.
C15_RevokedStaysOut ==
  [][/\ \A r \in Slots : LogsOut(r) => req'[r].cookie \notin DOMAIN sessions'
     /\ \A n \in 1..(nextID - 1) :
          Token(n) \notin DOMAIN sessions => Token(n) \notin DOMAIN sessions'
     /\ DOMAIN sessions' \subseteq {Token(n) : n \in 1..(nextID' - 1)}
     /\ \A r \in Slots :
          (Starts(r) /\ req'[r].cookie \notin DOMAIN sessions)
            => req'[r].pc = "done" /\ req'[r].status = 401
  ]_vars

\* a@x.com has logged in, made a comment and logged out; the delete of the
\* comment that carries the old token is answered 401.
C15_Witness ==
  \E r \in Slots :
    /\ req[r].op = "delete" /\ req[r].pc = "done" /\ req[r].status = 401
    /\ req[r].cookie = Token(1) /\ Token(1) \notin DOMAIN sessions
    /\ \E c \in Range(Thread(PathSeq[1])) : c.User = "a@x.com" /\ ~c.Deleted

\* The thread new keeps every comment of the thread old, in its place counted
\* from the end, with its id, author, body and time, and deleted if it was (a
\* comment that had no id may have been given one).
Kept(old, new) ==
  /\ Len(new) >= Len(old)
  /\ \A i \in 1..Len(old) :
       LET c == old[Len(old) + 1 - i]
           d == new[Len(new) + 1 - i]
       IN /\ d.User = c.User /\ d.Content = c.Content /\ d.When = c.When
          /\ c.ID # 0 => d.ID = c.ID
          /\ c.Deleted => d.Deleted

\* The thread in the bytes f ("no file" and zero bytes are the empty thread).
ThreadOf(f) == IF Decodable(f) THEN Unmarshal(f) ELSE <<>>

\* C16: when the os.WriteFile of an append, of a delete or of the migration has
\* returned, the thread file keeps every comment the operation read, with its
\* id, author, body and time unchanged, and deleted if it was deleted.
C16_CommentsKept ==
  [][/\ \A r \in Slots :
          (req[r].pc \in {"open", "write"} /\ req'[r].pc = "unlock")
            => Kept(ThreadOf(req[r].seen), ThreadOf(file'[req[r].path]))
     /\ (mig.pc = "open" /\ mig'.pc = "write")
          => Kept(ThreadOf(file[PathSeq[mig.idx]]), ThreadOf(mig.buf))
     /\ (mig.pc = "write" /\ mig'.pc # "write")
          => file'[PathSeq[mig.idx]] = mig.buf
  ]_vars

\* C17: getCommentCountPerItem returns no error, and its counts have, for every
\* thread file of the directory that can be read and decoded, the number of
\* comments of the file that are not deleted, whatever the other files are; a
\* file that cannot be read or decoded has no count.
C17_CountSkipsBadFiles ==
  \A r \in Slots :
    (req[r].op = "count" /\ req[r].pc = "done")
      => /\ req[r].status = 200
         /\ \A p \in Paths :
              IF Decodable(file[p])
              THEN req[r].counts[p] = Len(VisibleComments(Unmarshal(file[p])))
              ELSE req[r].counts[p] = -1

\* a.mp3 cannot be read, and b.mp3, with two comments of which one is deleted,
\* has the count 1.
C17_Witness ==
  \E r \in Slots :
    /\ req[r].op = "count" /\ req[r].pc = "done"
    /\ file[PathSeq[1]] = Unreadable
    /\ Len(Thread(PathSeq[2])) = 2 /\ req[r].counts[PathSeq[2]] = 1

\* C18: commentDelete answers 404 only when there is no thread file or no comment
\* with the id in it, 403 only for a comment of another author or one that is 5
\* minutes old, and 500, not 404, when the thread file is there and cannot be read.
C18_DistinctSignals ==
  \A r \in Slots :
    Answered(r) =>
      /\ req[r].status = 404
           => \/ req[r].seen = Absent
              \/ Decodable(req[r].seen) /\ Targets(r) = {}
      /\ req[r].status = 403
           => \E c \in Targets(r) : c.User # req[r].email \/ now - c.When >= 5
      /\ ReadErr(req[r].seen) \notin {"", "notexist"} => req[r].status = 500

\* C19: whatever migrateComments returns, NewMainServer goes on to register the
\* handlers and to listen, and then serves (or exits because net.Listen failed,
\* never because of the migration).
C19_StartsAnyway ==
  /\ [][mig.pc = "returned" => mig'.pc = "listen"]_vars
  /\ (mig.pc = "returned" ~> mig.pc = "listen")
  /\ (mig.pc = "listen" ~> mig.pc \in {"serving", "fatal"})

\* The server serves after a migration that returned a read error and left the
\* thread of b.mp3 without ids.
C19_Witness ==
  /\ mig.pc = "serving" /\ mig.err = "read"
  /\ \E c \in Range(Thread(PathSeq[2])) : c.ID = 0

\* C20: whenever no append is in the middle of its write, every comment of the
\* thread was made no earlier than the comment after it.
C20_NewestFirstByTime ==
  \A p \in Paths :
    ~Writing(p) =>
      \A i \in 1..(Len(Thread(p)) - 1) : Thread(p)[i].When >= Thread(p)[i + 1].When

First(comments, id) ==
  IF \E i \in 1..Len(comments) : comments[i].ID = id
  THEN CHOOSE i \in 1..Len(comments) :
         comments[i].ID = id /\ \A j \in 1..(i - 1) : comments[j].ID # id
  ELSE 0

\* C22: a delete that answers 404 or 403 leaves the thread file as it is, byte
\* for byte; a delete that answers 204 has written the thread it read with the
\* first comment of the id marked deleted and every other comment, and every
\* other field of that comment, as it was.
C22_DeleteFrame ==
  [][\A r \in Slots :
       req[r].op = "delete" =>
         /\ (req[r].pc = "read" /\ req'[r].pc = "unlock")
              => req'[r].status \in {404, 403, 500} /\ file' = file
         /\ (req[r].pc = "unlock" /\ req[r].status \in {404, 403})
              => file' = file /\ file[req[r].path] = req[r].seen
         /\ (req[r].pc = "write" /\ req'[r].pc = "unlock") =>
              LET old == ThreadOf(req[r].seen)
                  new == ThreadOf(file'[req[r].path])
                  i == First(old, req[r].id)
              IN /\ req'[r].status = 204
                 /\ i # 0 /\ Len(new) = Len(old)
                 /\ new[i] = [old[i] EXCEPT !.Deleted = TRUE]
                 /\ \A j \in 1..Len(old) : j # i => new[j] = old[j]
                 /\ \A p \in Paths : p # req[r].path => file'[p] = file[p]
  ]_vars

\* b@x.com has deleted comment 101 of a thread that has two comments of that id:
\* the first, which is b@x.com's, is marked, and the second is as it was.
C22_Witness ==
  \E r \in Slots :
    /\ Answered(r) /\ req[r].status = 204 /\ req[r].email = "b@x.com"
    /\ Thread(req[r].path) = <<[Twin EXCEPT !.Deleted = TRUE], Stored>>

\* C23: an append that answers 303 has written the thread it read with one
\* comment put before it: the comment has the email of the session the request's
\* cookie names as its author, the body of the form, an id that is not empty,
\* and is not deleted; where there was no file or a file of zero bytes the
\* thread is that one comment.
C23_AppendFrame ==
  [][\A r \in Slots :
       (req[r].op = "submit" /\ req[r].pc = "write" /\ req'[r].pc = "unlock") =>
         LET old == ThreadOf(req[r].seen)
             new == ThreadOf(file'[req[r].path])
         IN /\ req'[r].status = 303
            /\ Len(new) = Len(old) + 1
            /\ new[1].User = sessions[req[r].cookie] /\ new[1].User # ""
            /\ new[1].Content = req[r].comment.Content
            /\ new[1].ID # 0 /\ ~new[1].Deleted
            /\ \A i \in 1..Len(old) : new[i + 1] = old[i]
            /\ req[r].seen \in {Absent, Empty} => Len(new) = 1
            /\ \A p \in Paths : p # req[r].path => file'[p] = file[p]
  ]_vars

\* b@x.com has appended to the thread of two comments of a@x.com and b@x.com.
C23_Witness ==
  \E r \in Slots :
    /\ req[r].op = "submit" /\ req[r].pc = "unlock" /\ req[r].status = 303
    /\ req[r].cookie = "t2"
    /\ Len(Thread(req[r].path)) = 3
    /\ Thread(req[r].path)[1].User = "b@x.com"
    /\ Thread(req[r].path)[2] = Twin /\ Thread(req[r].path)[3] = Stored

\* A request has got the mutex of its path from lockCommentFile.
HasMutex(r) == req[r].pc \in {"mutex", "read", "open", "write", "unlock"}

\* C24: the entry of a path in the lock table, once made, is never removed or
\* replaced; every mutex that was made is the entry of exactly one path; and
\* every request that has got a mutex from lockCommentFile has got the entry of
\* its path, so that requests of one path have the same mutex.
C24_OneLockPerPath ==
  [][/\ \A p \in Paths : locks[p] # 0 => locks'[p] = locks[p]
     /\ Len(muHolder') = Cardinality({p \in Paths : locks'[p] # 0})
     /\ \A p, q \in Paths : (locks'[p] # 0 /\ locks'[p] = locks'[q]) => p = q
     /\ \A r \in Slots : HasMutex(r)' => req'[r].m = locks'[req'[r].path]
  ]_vars

\* Two requests that came for a.mp3 before it had a lock have got the same mutex
\* and neither has locked it yet.
C24_Witness ==
  \E r1, r2 \in Slots :
    /\ r1 # r2
    /\ req[r1].pc = "mutex" /\ req[r2].pc = "mutex"
    /\ req[r1].path = PathSeq[1] /\ req[r2].path = PathSeq[1]
    /\ req[r1].m = req[r2].m /\ muHolder = <<0>>

\* ------------------------------------------------- the session registry lock
\* The handlers of the session registry step by step: each takes sessions.mu,
\* reads or writes sessions.m, and gives sessions.mu back.

\* A mutex that Lock takes whether or not it is held.
SessCanLockAnyway == TRUE

\* sessions.mu.Lock() returns when no goroutine holds the mutex.
SessCanLock == sessionsMu = 0

\* handleCallback with the identity Google reported, up to sessions.mu.Lock():
\* an identity off the allow-list is answered 403, another gets a fresh token.
CallbackBegin(r, email) ==
  /\ Free(r)
  /\ LET rec == [NoReq EXCEPT !.op = "callback", !.email = email]
     IN IF ~isAllowedEmail(email)
        THEN /\ Finish(r, [rec EXCEPT !.msg = "access denied: email not in allowlist"], 403)
             /\ UNCHANGED nextID
        ELSE /\ nextID <= MaxComments
             /\ nextID' = nextID + 1
             /\ req' = [req EXCEPT ![r] = [rec EXCEPT !.pc = "sessLock", !.cookie = Token(nextID)]]
  /\ UNCHANGED <<file, sessions, tableMu, locks, muHolder, now, log, gone, mig, allowed, dir, sessionsMu>>

\* handleLogout up to sessions.mu.Lock(): without a cookie it only redirects.
LogoutBegin(r, cookie) ==
  /\ Free(r)
  /\ LET rec == [NoReq EXCEPT !.op = "logout", !.cookie = cookie]
     IN IF cookie = "" THEN Finish(r, rec, 307)
        ELSE req' = [req EXCEPT ![r] = [rec EXCEPT !.pc = "sessLock"]]
  /\ UNCHANGED <<file, sessions, tableMu, locks, muHolder, now, nextID, log, gone, mig, allowed, dir, sessionsMu>>

\* commentDelete of a request without a comment id, up to the sessions.mu.Lock()
\* of emailFromRequest: without a cookie the email is "" and the answer 401.
ResolveBegin(r, cookie) ==
  /\ Free(r)
  /\ LET rec == [NoReq EXCEPT !.op = "delete", !.cookie = cookie]
     IN IF cookie = "" THEN Finish(r, rec, 401)
        ELSE req' = [req EXCEPT ![r] = [rec EXCEPT !.pc = "sessLock"]]
  /\ UNCHANGED <<file, sessions, tableMu, locks, muHolder, now, nextID, log, gone, mig, allowed, dir, sessionsMu>>

\* sessions.mu.Lock()
SessLock(r) ==
  /\ req[r].pc = "sessLock"
  /\ SessCanLock
  /\ sessionsMu' = r
  /\ req' = [req EXCEPT ![r].pc = "sessAccess"]
  /\ UNCHANGED <<file, sessions, tableMu, locks, muHolder, now, nextID, log, gone, mig, allowed, dir>>

\* The access to sessions.m between Lock and Unlock: handleCallback stores the
\* email under the token, handleLogout deletes the token, emailFromRequest
\* looks the token up.
SessAccess(r) ==
  /\ req[r].pc = "sessAccess"
  /\ CASE req[r].op = "callback" ->
            /\ sessions' = Grant(sessions, req[r].cookie, req[r].email)
            /\ req' = [req EXCEPT ![r].pc = "sessUnlock"]
       [] req[r].op = "logout" ->
            /\ sessions' = Revoke(sessions, req[r].cookie)
            /\ req' = [req EXCEPT ![r].pc = "sessUnlock"]
       [] OTHER ->
            /\ req' = [req EXCEPT ![r].pc = "sessUnlock",
                                  ![r].email = emailFromRequest(req[r].cookie)]
            /\ UNCHANGED sessions
  /\ UNCHANGED <<file, tableMu, locks, muHolder, now, nextID, log, gone, mig, allowed, dir, sessionsMu>>

\* sessions.mu.Unlock() and the rest of the handler: handleCallback and
\* handleLogout redirect, commentDelete answers 401 without an email and 400
\* for the missing comment id.
SessUnlock(r) ==
  /\ req[r].pc = "sessUnlock"
  /\ sessionsMu' = 0
  /\ IF req[r].op \in {"callback", "logout"} THEN Finish(r, req[r], 307)
     ELSE IF req[r].email = "" THEN Finish(r, req[r], 401)
     ELSE Finish(r, [req[r] EXCEPT !.msg = "missing comment id"], 400)
  /\ UNCHANGED <<file, sessions, tableMu, locks, muHolder, now, nextID, log, gone, mig, allowed, dir>>

\* The server is up, nobody is logged in, and two identities are allowed.
InitRegistry ==
  /\ file = [p \in Paths |-> Absent]
  /\ sessions = <<>>
  /\ tableMu = 0
  /\ locks = [p \in Paths |-> 0]
  /\ muHolder = <<>>
  /\ req = [r \in Slots |-> NoReq]
  /\ now = 0
  /\ nextID = 1
  /\ log = [p \in Paths |-> <<>>]
  /\ gone = {}
  /\ mig = NoMig
  /\ allowed = {"a@x.com", "b@x.com"}
  /\ dir = TRUE
  /\ sessionsMu = 0

\* Logins of three identities, logouts and lookups of the first token, of an
\* unknown token and without a cookie arrive at any time and run concurrently.
NextRegistry ==
  \E r \in Slots :
    \/ \E e \in {"a@x.com", "b@x.com", "c@x.com"} : CallbackBegin(r, e)
    \/ \E c \in {Token(1), "tx", ""} : LogoutBegin(r, c)
    \/ \E c \in {Token(1), "tx", ""} : ResolveBegin(r, c)
    \/ SessLock(r)
    \/ SessAccess(r)
    \/ SessUnlock(r)
    \/ Release(r)

SpecRegistry == InitRegistry /\ [][NextRegistry]_vars

\* A request is between sessions.mu.Lock() and sessions.mu.Unlock().
InRegistry(r) == req[r].pc \in {"sessAccess", "sessUnlock"}

\* The step is the access of request r to sessions.m.
Accesses(r) == req[r].pc = "sessAccess" /\ req'[r].pc = "sessUnlock"

\* C25: every access to the token map is made by the one request that holds
\* sessions.mu, so each create, resolve and revoke acts on the map as a whole and
\* the map is at any time the result of the accesses in the order of their
\* locks: a create adds its token with its email and keeps every other entry, a
\* revoke removes its token and nothing else, a resolve reads the entry of its
\* token as the map has it, and the map changes in no other step; so concurrent
\* creates for different identities are all registered: a finished login whose
\* token no logout names (every token but the first) has its entry.
C25_RegistryAtomic ==
  [][/\ \A r \in Slots : InRegistry(r)' => sessionsMu' = r
     /\ \A r \in Slots : Accesses(r) =>
          /\ sessionsMu = r
          /\ \A q \in Slots \ {r} : ~InRegistry(q)
          /\ req[r].op = "callback" =>
               /\ DOMAIN sessions' = DOMAIN sessions \cup {req[r].cookie}
               /\ sessions'[req[r].cookie] = req[r].email
               /\ \A t \in DOMAIN sessions \ {req[r].cookie} : sessions'[t] = sessions[t]
          /\ req[r].op = "logout" =>
               /\ DOMAIN sessions' = DOMAIN sessions \ {req[r].cookie}
               /\ \A t \in DOMAIN sessions' : sessions'[t] = sessions[t]
          /\ req[r].op = "delete" =>
               /\ sessions' = sessions
               /\ req'[r].email = IF req[r].cookie \in DOMAIN sessions
                                  THEN sessions[req[r].cookie] ELSE ""
     /\ sessions' # sessions => \E r \in Slots : Accesses(r)
     /\ \A r \in Slots :
          (req'[r].op = "callback" /\ req'[r].pc = "done" /\ req'[r].status = 307
             /\ req'[r].cookie # Token(1)) =>
            /\ req'[r].cookie \in DOMAIN sessions'
            /\ sessions'[req'[r].cookie] = req'[r].email
  ]_vars

\* a@x.com is registered and its login still holds sessions.mu while the login
\* of b@x.com waits for it.
C25_Witness ==
  \E r1, r2 \in Slots :
    /\ req[r1].op = "callback" /\ req[r1].pc = "sessUnlock" /\ sessionsMu = r1
    /\ req[r2].op = "callback" /\ req[r2].pc = "sessLock"
    /\ req[r1].email = "a@x.com" /\ req[r2].email = "b@x.com"
    /\ req[r1].cookie \in DOMAIN sessions /\ sessions[req[r1].cookie] = "a@x.com"

\* ------------------------------------------------ startup, then the handlers
\* A server that listens in a goroutine of its own while NewMainServer goes on.
AcceptsEarly == TRUE

\* srv.Serve(ln), the last statement of NewMainServer, accepts the requests.
Accepts == mig.pc = "serving"

\* A request for a.mp3, of a@x.com or without a session, is accepted and its
\* handler started.
Serve(r) ==
  /\ Accepts
  /\ \E c \in {"t1", ""} :
       \/ SubmitStart(r, c, TRUE, "hello", PathSeq[1])
       \/ DeleteStart(r, c, Stored.ID, PathSeq[1])

\* A comment of a server from before the comment ids.
Old == Comment(0, "a@x.com", "old", 0, FALSE)

\* What NewMainServer finds at a.mp3.
ServeFiles == {Absent, Unreadable, Marshal(<<Old>>), Marshal(<<Old, Stored>>)}

\* NewMainServer calls migrateComments on the comments directory it finds; the
\* session of a@x.com is there from the first login on.
InitServe ==
  /\ file \in {f \in [Paths -> ServeFiles] : f[PathSeq[2]] = Absent}
  /\ sessions = [t \in {"t1"} |-> "a@x.com"]
  /\ tableMu = 0
  /\ locks = [p \in Paths |-> 0]
  /\ muHolder = <<>>
  /\ req = [r \in Slots |-> NoReq]
  /\ now = 0
  /\ nextID = 1
  /\ log = [p \in Paths |-> <<>>]
  /\ gone = {}
  /\ mig = [NoMig EXCEPT !.pc = "walk", !.run = 1, !.idx = 1]
  /\ allowed = {"a@x.com"}
  /\ dir = TRUE
  /\ sessionsMu = 0

\* One run of the server: the migration, the start, and then requests for
\* a.mp3, one after the other.
NextServe ==
  \/ MigrateVisit
  \/ MigrateOpen
  \/ MigrateWrite
  \/ MigrateReturn
  \/ Register
  \/ \E ok \in BOOLEAN : Listen(ok)
  \/ Serve(1)
  \/ Step(1)

SpecServe == InitServe /\ [][NextServe]_vars

\* migrateComments has not returned.
Migrating == mig.pc \in {"walk", "open", "write"}

\* C26: no request is served before srv.Serve, which NewMainServer reaches only
\* after migrateComments has returned; once the server serves, the migration
\* takes no further step; so while migrateComments runs no handler runs, the
\* files change only by the writes of the migration and before any append or
\* delete, and once the server serves they change only by the write of a
\* handler: no append is lost to a write of the migration.
C26_MigrationFirst ==
  [][/\ mig'.pc # "serving" => \A r \in Slots : req'[r] = NoReq
     /\ mig.pc = "serving" => mig' = mig
     /\ Migrating' => (\A p \in Paths : log'[p] = <<>>) /\ gone' = {}
     /\ \A p \in Paths : file'[p] # file[p] =>
          IF mig.pc = "serving"
          THEN \E r \in Slots : req[r].path = p /\ req[r].pc \in {"open", "write"}
          ELSE /\ mig.pc \in {"open", "write"} /\ PathSeq[mig.idx] = p
               /\ log[p] = <<>>
     /\ \A r \in Slots :
          (req[r].op = "submit" /\ req[r].pc = "write" /\ req'[r].pc = "unlock") =>
            /\ mig'.pc = "serving"
            /\ Ids(ThreadOf(file'[req[r].path])) =
                 <<req[r].comment.ID>> \o Ids(ThreadOf(req[r].seen))
  ]_vars

\* The migration gave the old comment of a.mp3 an id and wrote the file, the
\* server serves, and an append has put its comment in front of the two.
C26_Witness ==
  /\ mig.pc = "serving" /\ <<1, PathSeq[1]>> \in mig.wrote
  /\ log[PathSeq[1]] # <<>>
  /\ Len(Thread(PathSeq[1])) = 3
  /\ Thread(PathSeq[1])[1].ID = log[PathSeq[1]][1]
  /\ Thread(PathSeq[1])[2] = [Old EXCEPT !.ID = 1]
  /\ Thread(PathSeq[1])[3] = Stored

\* ------------------------------------------------- progress under the locks
\* The server is up on one thread file of one comment, made just now; the
\* comment ids are about to run out.
InitLive ==
  /\ file = [p \in Paths |-> IF p = PathSeq[1] THEN Marshal(<<Stored>>) ELSE Absent]
  /\ sessions = [t \in {"t1"} |-> "a@x.com"]
  /\ tableMu = 0
  /\ locks = [p \in Paths |-> 0]
  /\ muHolder = <<>>
  /\ req = [r \in Slots |-> NoReq]
  /\ now = 0
  /\ nextID = MaxComments
  /\ log = [p \in Paths |-> <<>>]
  /\ gone = {}
  /\ mig = NoMig
  /\ allowed = {"a@x.com"}
  /\ dir = TRUE
  /\ sessionsMu = 0

\* The steps of a handler that need no lock to be free: the file operations
\* and the unlocks.
Proceed(r) ==
  \/ LockLookup(r)
  \/ SubmitRead(r)
  \/ DeleteRead(r)
  \/ WriteOpen(r)
  \/ WriteData(r)
  \/ Unlock(r)

\* The server under concurrent deletes on the thread file and on a path that
\* has none, and appends to that path, arriving at any time.
NextLive ==
  \/ \E r \in Slots : SubmitStart(r, "t1", TRUE, "hello", PathSeq[2])
  \/ \E r \in Slots, p \in Paths : DeleteStart(r, "t1", Stored.ID, p)
  \/ \E r \in Slots : LockTable(r)
  \/ \E r \in Slots : LockMutex(r)
  \/ \E r \in Slots : Proceed(r)

\* sync.Mutex taken as fair: a handler that finds the mutex free again and again
\* gets it; a handler that can go on without a lock does go on.
SpecLive ==
  /\ InitLive /\ [][NextLive]_vars
  /\ \A r \in Slots : SF_vars(LockTable(r)) /\ SF_vars(LockMutex(r)) /\ WF_vars(Proceed(r))

\* The mutexes of thread files that request r holds.
Held(r) == {k \in DOMAIN muHolder : muHolder[k] = r}

\* C27: a request holds at most one mutex of a thread file, holds none while it
\* waits for or holds commentLocks.mu or waits for the mutex of its path, and
\* has given commentLocks.mu back before it waits for the mutex of its path; and
\* every request that has come to lockCommentFile gets the mutex of its path
\* and then returns and leaves no lock held.
C27_LocksMakeProgress ==
  /\ [](\A r \in Slots :
          /\ Cardinality(Held(r)) <= 1
          /\ req[r].pc \in {"idle", "done", "table", "lookup", "mutex"} => Held(r) = {}
          /\ req[r].pc \in {"table", "mutex"} => tableMu # r
          /\ Holds(r) => Held(r) = {req[r].m} /\ tableMu # r)
  /\ \A r \in Slots : req[r].pc = "table" ~> Holds(r)
  /\ \A r \in Slots : Holds(r) ~> (req[r].pc = "idle" /\ Held(r) = {})

\* One request holds the mutex of a.mp3 and is inside its write while another
\* waits for that mutex.
C27_Witness ==
  \E r1, r2 \in Slots :
    /\ req[r1].pc = "write" /\ req[r1].path = PathSeq[1]
    /\ req[r2].pc = "mutex" /\ req[r2].path = PathSeq[1]
    /\ muHolder[req[r2].m] = r1

\* The storage path of the request that slot r serves in this step.
PathOf(r) == IF req[r].pc = "idle" THEN req'[r].path ELSE req[r].path

\* C28: under concurrent appends and deletes on two storage paths, a step of a
\* request on one path leaves the file of every other path as it was: a file
\* changes only in the write of a request on that path, which holds the mutex
\* of that path; so whenever a write on a path has returned, the thread of the
\* path holds the comments that the appends on that path wrote, newest first,
\* and no other.
C28_OtherPathsUnchanged ==
  [][/\ \A r \in Slots : req'[r] # req[r] =>
          \A q \in Paths : q # PathOf(r) => file'[q] = file[q]
     /\ \A q \in Paths : file'[q] # file[q] =>
          \E r \in Slots :
            /\ req[r].path = q /\ req[r].pc \in {"open", "write"}
            /\ req'[r].pc # req[r].pc
            /\ locks[q] = req[r].m /\ muHolder[req[r].m] = r
     /\ \A q \in Paths : (file'[q] # file[q] /\ ~Writing(q)') =>
          Ids(Thread(q))' = Reverse(log'[q])
  ]_vars

\* An append on b.mp3 has written its comment while an append on a.mp3 is
\* inside its write, the file of a.mp3 truncated.
C28_Witness ==
  \E r1, r2 \in Slots :
    /\ req[r1].op = "submit" /\ req[r1].pc = "write" /\ req[r1].path = PathSeq[1]
    /\ req[r2].op = "submit" /\ req[r2].pc = "unlock" /\ req[r2].path = PathSeq[2]
    /\ req[r2].status = 303
    /\ Len(Thread(PathSeq[2])) = 1 /\ Thread(PathSeq[2])[1] = req[r2].comment
    /\ file[PathSeq[1]] = Empty
====
